---- MODULE Spec2Model ----
(***************************************************************************)
(* Model of github.com/Kuguchev/fitness-tracker: package spentcalories     *)
(* (distance, meanSpeed, RunningSpentCalories, WalkingSpentCalories,       *)
(* parseTraining, TrainingInfo) and package daysteps (parsePackage,        *)
(* DayActionInfo).                                                         *)
(*                                                                         *)
(* Representation.                                                         *)
(*  - A Go string is a sequence of characters; an ASCII character is the   *)
(*    one-character string, a Cyrillic letter is written by its code point *)
(*    ("U+0411" is the capital letter BE).  Every delimiter the code looks *)
(*    for is ASCII, so splitting by character equals splitting by byte.    *)
(*  - A number that needs more than 31 bits (a uint64, the mantissa of a   *)
(*    float64) is the sequence of its limbs in base 2^15, the least        *)
(*    significant first and the last one not zero; 0 is <<>>.              *)
(*  - A float64 is [cls, neg, mant, exp].  cls = "num" is the finite value *)
(*    (-1)^neg * mant * 2^exp, with 2^52 <= mant < 2^53 and                *)
(*    -1074 <= exp <= 971, or mant < 2^52 and exp = -1074 (subnormal), or  *)
(*    mant = 0 and exp = 0 (the zeros); cls = "inf" is +Inf or -Inf by     *)
(*    neg, cls = "nan" is NaN.  Every operation rounds its exact result to *)
(*    the nearest float64, a tie to the even mantissa, as IEEE 754 does.   *)
(*  - An int is an integer.  A time.Duration is [sec, ns]: whole seconds   *)
(*    and the remaining nanoseconds, both of the sign of the duration.     *)
(*  - An error is [fmt, cause, args]: the format string handed to          *)
(*    fmt.Errorf, the message format of the error wrapped by %w (or ""),   *)
(*    and the rendered arguments.  nil is NoErr.                           *)
(***************************************************************************)
EXTENDS Integers, Sequences, FiniteSets, TLC

(***************************************************************************)
(* Characters and strings                                                  *)
(***************************************************************************)
Digits == <<"0", "1", "2", "3", "4", "5", "6", "7", "8", "9">>

IsDigit(c) == \E i \in 1..10 : Digits[i] = c

DigitVal(c) == (CHOOSE i \in 1..10 : Digits[i] = c) - 1

\* Whether sub occurs in s as a contiguous substring (strings.Contains).
Contains(s, sub) ==
    \E i \in 0..(Len(s) - Len(sub)) : SubSeq(s, i + 1, i + Len(sub)) = sub

\* strings.Split(s, sep) for a one-character separator: the fields between
\* the separators, one more than there are separators.
Split(s, sep) ==
    LET at == {i \in 1..Len(s) : s[i] = sep}
        \* the position of the k-th separator; 0 and Len(s) + 1 bracket them
        pos(k) == IF k = 0 THEN 0
                  ELSE IF k > Cardinality(at) THEN Len(s) + 1
                  ELSE CHOOSE i \in at : Cardinality({j \in at : j < i}) = k - 1
    IN  [k \in 1..(Cardinality(at) + 1) |->
            SubSeq(s, pos(k - 1) + 1, pos(k) - 1)]

Pow10(k) ==
    LET P[i \in Nat] == IF i = 0 THEN 1 ELSE 10 * P[i - 1]
    IN  P[k]

\* The decimal digits of a natural number.
NatToStr(n) ==
    LET S[i \in Nat] ==
            IF i < 10 THEN <<Digits[i + 1]>>
            ELSE S[i \div 10] \o <<Digits[(i % 10) + 1]>>
    IN  S[n]

\* The %d verb (strconv.Itoa).
Itoa(n) == IF n < 0 THEN <<"-">> \o NatToStr(-n) ELSE NatToStr(n)

\* s padded on the left with zeros to k characters.
PadLeft(s, k) ==
    IF Len(s) >= k THEN s
    ELSE [i \in 1..k |-> IF i <= k - Len(s) THEN "0" ELSE s[i - (k - Len(s))]]

\* s without its trailing zeros.
TrimZeros(s) ==
    LET n == CHOOSE k \in 0..Len(s) :
                 /\ \A i \in (k + 1)..Len(s) : s[i] = "0"
                 /\ k > 0 => s[k] # "0"
    IN  SubSeq(s, 1, n)

\* The number a run of decimal digits denotes, most significant first.
DigitsVal(s) ==
    LET V[k \in 0..Len(s)] ==
            IF k = 0 THEN 0 ELSE V[k - 1] * 10 + DigitVal(s[k])
    IN  V[Len(s)]

\* The number of digits s has from position from on.
LeadingDigits(s, from) ==
    CHOOSE n \in 0..(Len(s) + 1 - from) :
        /\ \A i \in from..(from + n - 1) : IsDigit(s[i])
        /\ from + n <= Len(s) => ~IsDigit(s[from + n])

(***************************************************************************)
(* Errors                                                                  *)
(***************************************************************************)
NoErr == [fmt |-> "", cause |-> "", args |-> <<>>]

\* fmt.Errorf(format, args...) with no %w verb.
Errorf(format, args) == [fmt |-> format, cause |-> "", args |-> args]

\* fmt.Errorf(format, err) with format ending in %w.
Wrapf(format, err) == [fmt |-> format, cause |-> err.fmt, args |-> err.args]

(***************************************************************************)
(* Integers                                                                *)
(***************************************************************************)
Abs(x) == IF x < 0 THEN -x ELSE x

(***************************************************************************)
(* Natural numbers of any size: the limbs of the number in base 2^15, the  *)
(* least significant first, the last one not zero; 0 is <<>>.              *)
(***************************************************************************)
LimbBits == 15

Base == 2^LimbBits

\* The limb of a at index i, 0 above the top of a.
Limb(a, i) == IF i <= Len(a) THEN a[i] ELSE 0

\* a without the zero limbs at its top.
Trim(a) ==
    LET n == CHOOSE k \in 0..Len(a) :
                 /\ \A i \in (k + 1)..Len(a) : a[i] = 0
                 /\ k > 0 => a[k] # 0
    IN  SubSeq(a, 1, n)

Zeros(k) == [i \in 1..k |-> 0]

\* The limbs of the natural number n.
Big(n) ==
    LET F[i \in Nat] == IF i = 0 THEN <<>> ELSE <<i % Base>> \o F[i \div Base]
    IN  F[n]

\* The natural number of the limbs a.
Small(a) ==
    LET V[k \in 1..(Len(a) + 1)] ==
            IF k > Len(a) THEN 0 ELSE a[k] + Base * V[k + 1]
    IN  V[1]

\* a < b.
Less(a, b) ==
    \/ Len(a) < Len(b)
    \/ /\ Len(a) = Len(b)
       /\ \E i \in 1..Len(a) :
              a[i] < b[i] /\ \A j \in (i + 1)..Len(a) : a[j] = b[j]

\* The limbs acc.s with the low limb of x + acc.c put on top, the rest of
\* the sum being the new carry.
Carry(acc, x) ==
    [s |-> Append(acc.s, (x + acc.c) % Base), c |-> (x + acc.c) \div Base]

\* a + b.
BigAdd(a, b) ==
    LET n == (IF Len(a) > Len(b) THEN Len(a) ELSE Len(b)) + 1
        R[i \in 0..n] ==
            IF i = 0 THEN [s |-> <<>>, c |-> 0]
            ELSE Carry(R[i - 1], Limb(a, i) + Limb(b, i))
    IN  Trim(R[n].s)

\* The limbs acc.s with the low limb of x - y - acc.c put on top, what was
\* borrowed for it being the new acc.c.
Borrow(acc, x, y) ==
    [s |-> Append(acc.s, IF x < y + acc.c THEN x - y - acc.c + Base
                         ELSE x - y - acc.c),
     c |-> IF x < y + acc.c THEN 1 ELSE 0]

\* a - b for a >= b.
BigSub(a, b) ==
    LET R[i \in 0..Len(a)] ==
            IF i = 0 THEN [s |-> <<>>, c |-> 0]
            ELSE Borrow(R[i - 1], a[i], Limb(b, i))
    IN  Trim(R[Len(a)].s)

\* a * k + c for 0 <= k <= 2^15 and 0 <= c < 2^15.
MulSmallAdd(a, k, c) ==
    LET R[i \in 0..(Len(a) + 1)] ==
            IF i = 0 THEN [s |-> <<>>, c |-> c]
            ELSE Carry(R[i - 1], Limb(a, i) * k)
    IN  Trim(R[Len(a) + 1].s)

MulSmall(a, k) == MulSmallAdd(a, k, 0)

\* a * b.
BigMul(a, b) ==
    LET M[j \in 0..Len(b)] ==
            IF j = 0 THEN <<>>
            ELSE BigAdd(M[j - 1], Zeros(j - 1) \o MulSmall(a, b[j]))
    IN  M[Len(b)]

\* The limbs acc.q with the quotient of acc.r * 2^15 + x by k put below
\* them, the remainder being the new acc.r.
ShortStep(acc, x, k) ==
    [q |-> <<(acc.r * Base + x) \div k>> \o acc.q, r |-> (acc.r * Base + x) % k]

\* The quotient q and the remainder r of a by k, for 0 < k <= 2^15.
DivSmall(a, k) ==
    LET n == Len(a)
        R[i \in 0..n] ==
            IF i = 0 THEN [q |-> <<>>, r |-> 0]
            ELSE ShortStep(R[i - 1], a[n + 1 - i], k)
    IN  [q |-> Trim(R[n].q), r |-> R[n].r]

\* a * 2^k.
Shl(a, k) ==
    IF a = <<>> THEN <<>>
    ELSE Zeros(k \div LimbBits) \o MulSmall(a, 2^(k % LimbBits))

\* a / 2^k, the fraction dropped.
Shr(a, k) ==
    DivSmall(SubSeq(a, (k \div LimbBits) + 1, Len(a)), 2^(k % LimbBits)).q

\* The number of bits of a: the least n with a < 2^n.
BitLen(a) ==
    IF a = <<>> THEN 0
    ELSE LimbBits * (Len(a) - 1)
         + (CHOOSE n \in 1..LimbBits :
                2^(n - 1) <= a[Len(a)] /\ a[Len(a)] < 2^n)

\* One limb q of a quotient, p being q times the divisor: q is put below
\* the limbs acc.q and p taken off the remainder r.
QuoTake(acc, r, p, q) == [q |-> <<q>> \o acc.q, r |-> BigSub(r, p)]

\* The limb of the quotient of r by v: the estimate est, or one or two
\* less where est times v is above r.
QuoPick(acc, r, v, est) ==
    IF ~Less(r, MulSmall(v, est)) THEN QuoTake(acc, r, MulSmall(v, est), est)
    ELSE IF ~Less(r, MulSmall(v, est - 1))
    THEN QuoTake(acc, r, MulSmall(v, est - 1), est - 1)
    ELSE QuoTake(acc, r, MulSmall(v, est - 2), est - 2)

\* The limb of the quotient of r by v, whose top limb is 2^14 or more,
\* estimated from the two top limbs of r and the top limb of v.
QuoEstimate(acc, r, v) ==
    QuoPick(acc, r, v,
            IF Limb(r, Len(v) + 1) >= v[Len(v)] THEN Base - 1
            ELSE (Limb(r, Len(v) + 1) * Base + Limb(r, Len(v))) \div v[Len(v)])

\* One step of the long division by v: the remainder acc.r with the next
\* limb x of the dividend below it gives the next limb of the quotient.
QuoStep(acc, x, v) == QuoEstimate(acc, Trim(<<x>> \o acc.r), v)

\* The long division of u by v, the top limb of v being 2^14 or more.
LongDiv(u, v) ==
    LET n == Len(u)
        R[i \in 0..n] ==
            IF i = 0 THEN [q |-> <<>>, r |-> <<>>]
            ELSE QuoStep(R[i - 1], u[n + 1 - i], v)
    IN  R[n]

\* qr, the quotient and remainder of a division scaled by 2^s, unscaled.
Unscale(qr, s) == [q |-> Trim(qr.q), r |-> Shr(qr.r, s)]

\* a and b scaled by 2^s, divided.
ScaledDiv(a, b, s) == Unscale(LongDiv(Shl(a, s), Shl(b, s)), s)

\* The quotient q and the remainder r of a by b, for b > 0.
BigDivMod(a, b) == ScaledDiv(a, b, LimbBits - BitLen(<<b[Len(b)]>>))

\* The number a run of decimal digits denotes, most significant first.
FromDigits(s) ==
    LET V[k \in 0..Len(s)] ==
            IF k = 0 THEN <<>> ELSE MulSmallAdd(V[k - 1], 10, DigitVal(s[k]))
    IN  V[Len(s)]

\* The digit qr.r put before the digits acc.s, qr.q left to convert.
PushDigit(acc, qr) == [x |-> qr.q, s |-> <<Digits[qr.r + 1]>> \o acc.s]

\* The last digit of acc.x put before the digits acc.s.
DigitStep(acc) ==
    IF acc.x = <<>> THEN acc ELSE PushDigit(acc, DivSmall(acc.x, 10))

\* The decimal digits of a.
ToDigits(a) ==
    LET D[k \in 0..(5 * Len(a))] ==
            IF k = 0 THEN [x |-> a, s |-> <<>>]
            ELSE DigitStep(D[k - 1])
    IN  IF a = <<>> THEN <<"0">> ELSE D[5 * Len(a)].s

(***************************************************************************)
(* float64                                                                 *)
(***************************************************************************)
NaN == [cls |-> "nan", neg |-> FALSE, mant |-> <<>>, exp |-> 0]

Inf(neg) == [cls |-> "inf", neg |-> neg, mant |-> <<>>, exp |-> 0]

SignedZero(neg) == [cls |-> "num", neg |-> neg, mant |-> <<>>, exp |-> 0]

Zero == SignedZero(FALSE)

IsNaN(x) == x.cls = "nan"

IsInf(x) == x.cls = "inf"

IsFinite(x) == x.cls = "num"

IsZero(x) == x.cls = "num" /\ x.mant = <<>>

\* x <= 0.0 (false of NaN, as every comparison with NaN is).
LeZero(x) == ~IsNaN(x) /\ (x.neg \/ IsZero(x))

\* The float64 of mantissa m < 2^53 and exponent e; +Inf or -Inf above the
\* largest float64.
Finite(neg, m, e) ==
    IF e > 971 THEN Inf(neg)
    ELSE [cls |-> "num", neg |-> neg, mant |-> m, exp |-> e]

\* The float64 m * 2^e for m <= 2^53.
Pack(neg, m, e) ==
    IF m = <<>> THEN SignedZero(neg)
    ELSE IF BitLen(m) > 53 THEN Finite(neg, Shr(m, 1), e + 1)
    ELSE Finite(neg, m, e)

\* Half of t, rounded to the nearest integer, where t is a number cut off
\* after its halves bit and exact tells that nothing but zeros was cut off:
\* a tie goes to the even integer.
HalfEven(t, exact) ==
    IF t # <<>> /\ t[1] % 2 = 1 /\ (~exact \/ t[1] % 4 = 3)
    THEN BigAdd(Shr(t, 1), <<1>>)
    ELSE Shr(t, 1)

\* m / 2^k for k >= 1, rounded to the nearest integer, a tie to even.
RoundShift(m, k) ==
    HalfEven(Shr(m, k - 1),
             /\ \A i \in 1..((k - 1) \div LimbBits) : Limb(m, i) = 0
             /\ Limb(m, ((k - 1) \div LimbBits) + 1) % 2^((k - 1) % LimbBits) = 0)

\* m * 2^e with the k lowest bits of m rounded away (k > 0), or with -k
\* zero bits put below m.
RoundAt(neg, m, e, k) ==
    IF k <= 0 THEN Pack(neg, Shl(m, -k), e + k)
    ELSE Pack(neg, RoundShift(m, k), e + k)

\* The float64 nearest to m * 2^e, a tie to the even mantissa: 53 bits of
\* mantissa, fewer below the least exponent -1074.
Round(neg, m, e) ==
    IF m = <<>> THEN SignedZero(neg)
    ELSE RoundAt(neg, m, e,
                 IF BitLen(m) - 53 > -1074 - e THEN BitLen(m) - 53
                 ELSE -1074 - e)

\* float64(i) of an integer of sign neg and magnitude m.
FloatOfBig(neg, m) == IF m = <<>> THEN Zero ELSE Round(neg, m, 0)

\* float64(i) of an int.
Float(i) == FloatOfBig(i < 0, Big(Abs(i)))

\* x * y.
Mul(x, y) ==
    IF IsNaN(x) \/ IsNaN(y) \/ (IsInf(x) /\ IsZero(y)) \/ (IsZero(x) /\ IsInf(y))
    THEN NaN
    ELSE IF IsInf(x) \/ IsInf(y) THEN Inf(x.neg # y.neg)
    ELSE Round(x.neg # y.neg, BigMul(x.mant, y.mant), x.exp + y.exp)

\* The float64 nearest to (qr.q + f) * 2^e, where f is 0 when qr.r is 0 and
\* some fraction otherwise, and qr.q has 54 bits or more.
RoundQuo(neg, qr, e) ==
    Round(neg, MulSmallAdd(qr.q, 2, IF qr.r = <<>> THEN 0 ELSE 1), e - 1)

\* The float64 nearest to (a / b) * 2^e, from the quotient of a * 2^k by b.
Divide(neg, a, b, e, k) == RoundQuo(neg, BigDivMod(Shl(a, k), b), e - k)

\* x / y; a zero divisor gives +Inf, -Inf or NaN.
Quo(x, y) ==
    IF \/ IsNaN(x) \/ IsNaN(y)
       \/ (IsInf(x) /\ IsInf(y))
       \/ (IsZero(x) /\ IsZero(y))
    THEN NaN
    ELSE IF IsInf(x) \/ IsZero(y) THEN Inf(x.neg # y.neg)
    ELSE IF IsInf(y) \/ IsZero(x) THEN SignedZero(x.neg # y.neg)
    ELSE Divide(x.neg # y.neg, x.mant, y.mant, x.exp - y.exp,
                55 + BitLen(y.mant) - BitLen(x.mant))

\* The float64 nearest to n/d, for integers n and d # 0 below 2^53: what
\* the decimal constant n/d is as a float64.
Rat(n, d) == Quo(Float(n), Float(d))

\* The float64 nearest to (a - b) * 2^e or (b - a) * 2^e, a being of the
\* sign neg.
Difference(neg, a, b, e) ==
    IF a = b THEN Zero
    ELSE IF Less(a, b) THEN Round(~neg, BigSub(b, a), e)
    ELSE Round(neg, BigSub(a, b), e)

\* x + y for finite x and y that are not zero, e being the lesser exponent.
Sum(x, y, e) ==
    IF x.neg = y.neg
    THEN Round(x.neg, BigAdd(Shl(x.mant, x.exp - e), Shl(y.mant, y.exp - e)), e)
    ELSE Difference(x.neg, Shl(x.mant, x.exp - e), Shl(y.mant, y.exp - e), e)

\* x + y.
Add(x, y) ==
    IF IsNaN(x) \/ IsNaN(y) \/ (IsInf(x) /\ IsInf(y) /\ x.neg # y.neg) THEN NaN
    ELSE IF IsInf(x) THEN x
    ELSE IF IsInf(y) THEN y
    ELSE IF IsZero(x) /\ IsZero(y) THEN SignedZero(x.neg /\ y.neg)
    ELSE IF IsZero(x) THEN y
    ELSE IF IsZero(y) THEN x
    ELSE Sum(x, y, IF x.exp < y.exp THEN x.exp ELSE y.exp)

\* uint64(x) of a finite x >= 0: the fraction dropped.
Trunc(x) == IF x.exp >= 0 THEN Shl(x.mant, x.exp) ELSE Shr(x.mant, -x.exp)

\* The decimal of the digits of a number scaled by 10^prec.
Decimal(neg, digits, prec) ==
    (IF neg THEN <<"-">> ELSE <<>>)
    \o SubSeq(digits, 1, Len(digits) - prec)
    \o (IF prec = 0 THEN <<>>
        ELSE <<".">> \o SubSeq(digits, Len(digits) - prec + 1, Len(digits)))

\* m * 2^e rounded to the nearest integer, a tie to even.
Nearest(m, e) == IF e >= 0 THEN Shl(m, e) ELSE RoundShift(m, -e)

\* The %.<prec>f verb: the nearest decimal with prec digits after the point.
FormatFloat(x, prec) ==
    IF IsNaN(x) THEN <<"N", "a", "N">>
    ELSE IF IsInf(x)
    THEN (IF x.neg THEN <<"-", "I", "n", "f">> ELSE <<"+", "I", "n", "f">>)
    ELSE Decimal(x.neg,
                 PadLeft(ToDigits(Nearest(BigMul(x.mant, Big(Pow10(prec))),
                                          x.exp)),
                         prec + 1),
                 prec)
(***************************************************************************)
(* strconv.Atoi                                                            *)
(***************************************************************************)
\* 1<<63 and 1<<64.
Two63 == Shl(<<1>>, 63)

Two64 == Shl(<<1>>, 64)

\* strconv.ParseUint and the range check of strconv.ParseInt on the text
\* body after the sign, un being the number its n leading digits denote.
\* The digits are read one by one: the one that takes the number past
\* 1<<64 - 1 ends the scan with a range error, a character that is no digit
\* ends it with a syntax error, whichever comes first.  The value returned
\* with an error is not modelled: the callers drop it.
ParseUint(s, neg, body, n, un) ==
    IF ~Less(un, Two64)
    THEN [val |-> 0,
          err |-> Errorf("strconv.Atoi: parsing %q: value out of range", <<s>>)]
    ELSE IF body = <<>> \/ n < Len(body)
    THEN [val |-> 0,
          err |-> Errorf("strconv.Atoi: parsing %q: invalid syntax", <<s>>)]
    ELSE IF (IF neg THEN Less(Two63, un) ELSE ~Less(un, Two63))
    THEN [val |-> 0,
          err |-> Errorf("strconv.Atoi: parsing %q: value out of range", <<s>>)]
    ELSE [val |-> (IF neg THEN -1 ELSE 1) * Small(un), err |-> NoErr]

\* strconv.ParseInt(s, 10, 0) on the text body of s after its sign, which
\* has n leading digits.
ParseInt(s, neg, body, n) ==
    ParseUint(s, neg, body, n, FromDigits(SubSeq(body, 1, n)))

\* s without its sign.
Unsigned(s) == IF s # <<>> /\ Head(s) \in {"+", "-"} THEN Tail(s) ELSE s

\* strconv.Atoi(s): [val, err].  An optional sign and then one or more
\* decimal digits; anything else is a syntax error, a value outside int64
\* a range error.
Atoi(s) ==
    ParseInt(s, s # <<>> /\ Head(s) = "-", Unsigned(s),
             LeadingDigits(Unsigned(s), 1))

(***************************************************************************)
(* time.Duration and time.ParseDuration                                    *)
(***************************************************************************)
NsPerSec == 1000 * 1000 * 1000

ZeroDuration == [sec |-> 0, ns |-> 0]

\* d <= 0 and d > 0 of a time.Duration.
DurLeZero(d) == d.sec <= 0 /\ d.ns <= 0

DurPositive(d) == ~DurLeZero(d)

\* The time.Duration of sign neg with qr.q whole seconds and qr.r
\* nanoseconds more.
DurationOf(neg, qr) ==
    [sec |-> (IF neg THEN -1 ELSE 1) * Small(qr.q),
     ns  |-> (IF neg THEN -1 ELSE 1) * Small(qr.r)]

\* Duration(m), or -Duration(m), of a uint64 m <= 1<<63 of nanoseconds.
ToDuration(neg, m) == DurationOf(neg, BigDivMod(m, Big(NsPerSec)))

\* time's unitMap: the nanoseconds of each unit.
UnitMap(u) ==
    IF u = <<"n", "s">> THEN [ok |-> TRUE, ns |-> Big(1)]
    ELSE IF u \in {<<"u", "s">>, <<"U+00B5", "s">>, <<"U+03BC", "s">>}
    THEN [ok |-> TRUE, ns |-> Big(1000)]
    ELSE IF u = <<"m", "s">> THEN [ok |-> TRUE, ns |-> Big(1000 * 1000)]
    ELSE IF u = <<"s">> THEN [ok |-> TRUE, ns |-> Big(NsPerSec)]
    ELSE IF u = <<"m">>
    THEN [ok |-> TRUE, ns |-> BigMul(Big(60), Big(NsPerSec))]
    ELSE IF u = <<"h">>
    THEN [ok |-> TRUE, ns |-> BigMul(Big(3600), Big(NsPerSec))]
    ELSE [ok |-> FALSE, ns |-> <<>>]

\* The length of the unit s has at position from: the characters before
\* the next period or digit.
UnitLen(s, from) ==
    CHOOSE n \in 0..(Len(s) + 1 - from) :
        /\ \A i \in from..(from + n - 1) : s[i] # "." /\ ~IsDigit(s[i])
        /\ from + n <= Len(s) => (s[from + n] = "." \/ IsDigit(s[from + n]))

InvalidDuration(orig) == Errorf("time: invalid duration %q", <<orig>>)

\* The term of s at position i, [0-9]*(\.[0-9]*)?<unit>, given the number nv
\* of its leading digits, the position fi after its period if it has one,
\* the number nf of digits there and the length nu of the unit after them:
\* the digits before and after the period, the unit, and where the next
\* term starts.
Term(s, i, nv, fi, nf, nu) ==
    [vs |-> SubSeq(s, i, i + nv - 1), fs |-> SubSeq(s, fi, fi + nf - 1),
     u |-> SubSeq(s, fi + nf, fi + nf + nu - 1), next |-> fi + nf + nu]

TermFraction(s, i, nv, fi, nf) == Term(s, i, nv, fi, nf, UnitLen(s, fi + nf))

TermPeriod(s, i, nv, fi) ==
    TermFraction(s, i, nv, fi, IF fi > i + nv THEN LeadingDigits(s, fi) ELSE 0)

TermDigits(s, i, nv) ==
    TermPeriod(s, i, nv,
               IF i + nv <= Len(s) /\ s[i + nv] = "." THEN i + nv + 1 ELSE i + nv)

ScanTerm(s, i) == TermDigits(s, i, LeadingDigits(s, i))

\* The largest x that leadingFraction multiplies by ten: (1<<63 - 1) / 10.
MaxFraction == DivSmall(BigSub(Two63, <<1>>), 10).q

\* One more digit of a fraction, y being the digits so far with it: taken
\* unless y is above 1<<63.
FractionTake(acc, y) ==
    IF Less(Two63, y) THEN [acc EXCEPT !.overflow = TRUE]
    ELSE [x |-> y, scale |-> Mul(acc.scale, Float(10)), overflow |-> FALSE]

\* The digit c of a fraction: dropped once a digit did not fit.
FractionStep(acc, c) ==
    IF acc.overflow THEN acc
    ELSE IF Less(MaxFraction, acc.x) THEN [acc EXCEPT !.overflow = TRUE]
    ELSE FractionTake(acc, MulSmallAdd(acc.x, 10, DigitVal(c)))

\* time's leadingFraction on the digits fs after a period: the number x of
\* the digits that fit and the float64 scale, 10 to the count of them.
leadingFraction(fs) ==
    LET R[k \in 0..Len(fs)] ==
            IF k = 0 THEN [x |-> <<>>, scale |-> Float(1), overflow |-> FALSE]
            ELSE FractionStep(R[k - 1], fs[k])
    IN  R[Len(fs)]

\* The error of the term t of the duration text orig up to the lookup of
\* its unit, or NoErr: digits before the period that denote more than
\* 1<<63 (time's leadingInt), no digit at all, no unit, an unknown unit.
TermErr(t, unit, orig) ==
    IF Less(Two63, FromDigits(t.vs)) THEN InvalidDuration(orig)
    ELSE IF t.vs = <<>> /\ t.fs = <<>> THEN InvalidDuration(orig)
    ELSE IF t.u = <<>>
    THEN Errorf("time: missing unit in duration %q", <<orig>>)
    ELSE IF ~unit.ok
    THEN Errorf("time: unknown unit %q in duration %q", <<t.u, orig>>)
    ELSE NoErr

\* whole + uint64(float64(f) * (float64(unit) / scale)) for a fraction
\* f / scale that is not zero.
TermSum(whole, frac, unit) ==
    IF frac.x = <<>> THEN whole
    ELSE BigAdd(whole,
                Trunc(Mul(FloatOfBig(FALSE, frac.x),
                          Quo(FloatOfBig(FALSE, unit), frac.scale))))

\* A uint64 of nanoseconds, which must not be above 1<<63.
Bounded(v) == [ok |-> ~Less(Two63, v), v |-> v]

\* The nanoseconds of the term v.<frac><unit>: v * unit and the fraction,
\* unless v is above 1<<63 / unit or the sum above 1<<63.
TermValue(v, frac, unit) ==
    IF Less(BigDivMod(Two63, unit).q, v) THEN [ok |-> FALSE, v |-> <<>>]
    ELSE Bounded(TermSum(BigMul(v, unit), frac, unit))

\* x as a uint64, for x < 1<<65.
Wrap64(x) == IF Less(x, Two64) THEN x ELSE BigSub(x, Two64)

\* The loop of time.ParseDuration over the terms ([0-9]*(\.[0-9]*)?[a-z]+)+
\* of s, orig being the text in the error messages: [d, err], d being the
\* uint64 sum of the terms.
ParseTerms(s, orig) ==
    LET Fail(e) == [d |-> <<>>, err |-> e]
        \* the sum d with one more term, or the terms after it
        Total(d, next, rest) ==
            IF Less(Two63, d) THEN Fail(InvalidDuration(orig))
            ELSE rest[next, d]
        Value(t, tv, d, rest) ==
            IF ~tv.ok THEN Fail(InvalidDuration(orig))
            ELSE Total(Wrap64(BigAdd(d, tv.v)), t.next, rest)
        \* one term: its error, or the terms after it
        Step(t, unit, e, d, rest) ==
            IF e # NoErr THEN Fail(e)
            ELSE Value(t, TermValue(FromDigits(t.vs), leadingFraction(t.fs),
                                    unit.ns),
                       d, rest)
        Check(t, unit, d, rest) == Step(t, unit, TermErr(t, unit, orig), d, rest)
        Lookup(t, d, rest) == Check(t, UnitMap(t.u), d, rest)
        \* the terms from position i on, d being the sum of those before
        T[i \in 1..(Len(s) + 1), d \in Seq(Nat)] ==
            IF i > Len(s) THEN [d |-> d, err |-> NoErr]
            ELSE IF ~(s[i] = "." \/ IsDigit(s[i]))
            THEN Fail(InvalidDuration(orig))
            ELSE Lookup(ScanTerm(s, i), d, T)
    IN  T[1, <<>>]

\* The end of time.ParseDuration: the sum r.d of the terms with the sign,
\* which must not be above 1<<63 - 1 without one.
Signed(r, neg, orig) ==
    IF r.err # NoErr THEN [d |-> ZeroDuration, err |-> r.err]
    ELSE IF neg THEN [d |-> ToDuration(TRUE, r.d), err |-> NoErr]
    ELSE IF ~Less(r.d, Two63)
    THEN [d |-> ZeroDuration, err |-> InvalidDuration(orig)]
    ELSE [d |-> ToDuration(FALSE, r.d), err |-> NoErr]

\* time.ParseDuration(s): [d, err].
ParseDuration(s) ==
    IF Unsigned(s) = <<"0">> THEN [d |-> ZeroDuration, err |-> NoErr]
    ELSE IF Unsigned(s) = <<>>
    THEN [d |-> ZeroDuration, err |-> InvalidDuration(s)]
    ELSE Signed(ParseTerms(Unsigned(s), s), s # <<>> /\ Head(s) = "-", s)

\* float64(d / unit) + float64(d % unit) / float64(unit), unit being size
\* seconds: the whole units of d and the rest of its nanoseconds.
DurIn(d, size) ==
    Add(Float((IF d.sec < 0 THEN -1 ELSE 1) * (Abs(d.sec) \div size)),
        Quo(FloatOfBig(d.sec < 0 \/ d.ns < 0,
                       BigAdd(BigMul(Big(Abs(d.sec) % size), Big(NsPerSec)),
                              Big(Abs(d.ns)))),
            FloatOfBig(FALSE, BigMul(Big(size), Big(NsPerSec)))))

\* Duration.Hours() and Duration.Minutes().
Hours(d) == DurIn(d, 3600)

Minutes(d) == DurIn(d, 60)

\* fmtFrac: the fraction frac/10^prec without trailing zeros, and without
\* the point when it is zero.
FracStr(frac, prec) ==
    LET t == TrimZeros(PadLeft(NatToStr(frac), prec))
    IN  IF t = <<>> THEN <<>> ELSE <<".">> \o t

\* Duration.String(), the %s verb of a time.Duration.
DurationString(d) ==
    LET sec == Abs(d.sec)
        ns  == Abs(d.ns)
        min == sec \div 60
        body ==
            IF sec = 0
            THEN IF ns = 0 THEN <<"0", "s">>
                 ELSE IF ns < 1000 THEN NatToStr(ns) \o <<"n", "s">>
                 ELSE IF ns < 1000000
                 THEN NatToStr(ns \div 1000) \o FracStr(ns % 1000, 3)
                          \o <<"U+00B5", "s">>
                 ELSE NatToStr(ns \div 1000000) \o FracStr(ns % 1000000, 6)
                          \o <<"m", "s">>
            ELSE (IF min \div 60 > 0 THEN NatToStr(min \div 60) \o <<"h">>
                  ELSE <<>>)
                 \o (IF min > 0 THEN NatToStr(min % 60) \o <<"m">> ELSE <<>>)
                 \o NatToStr(sec % 60) \o FracStr(ns, 9) \o <<"s">>
    IN  (IF d.sec < 0 \/ d.ns < 0 THEN <<"-">> ELSE <<>>) \o body

(***************************************************************************)
(* package spentcalories: constants                                        *)
(***************************************************************************)
LenStep == Rat(65, 100)

MInKm == 1000

minInH == 60

stepLengthCoefficient == Rat(45, 100)

walkingCaloriesCoefficient == Rat(1, 2)

running ==
    <<"U+0411", "U+0435", "U+0433">>

walking ==
    <<"U+0425", "U+043E", "U+0434", "U+044C", "U+0431", "U+0430">>

(***************************************************************************)
(* package spentcalories: parseTraining                                    *)
(***************************************************************************)
\* checkTraining with the duration checked before the step count.
checkTrainingDurationFirst(activity, count, duration) ==
    LET Fail(e) ==
            [steps |-> 0, activity |-> activity, duration |-> ZeroDuration,
             err |-> e]
    IN  IF duration.err # NoErr
        THEN Fail(Wrapf("parsing duration failed: %w", duration.err))
        ELSE IF DurLeZero(duration.d)
        THEN Fail(Errorf("activity duration must be greater than zero, got: %s",
                         <<DurationString(duration.d)>>))
        ELSE IF count.err # NoErr
        THEN Fail(Wrapf("parsing steps failed: %w", count.err))
        ELSE IF count.val <= 0
        THEN Fail(Errorf("steps must be greater than zero, got: %d",
                         <<Itoa(count.val)>>))
        ELSE [steps |-> count.val, activity |-> activity,
              duration |-> duration.d, err |-> NoErr]

\* The checks of parseTraining on its three fields, count and duration
\* being what strconv.Atoi and time.ParseDuration make of the first and the
\* third.
checkTraining(activity, count, duration) ==
    LET Fail(e) ==
            [steps |-> 0, activity |-> activity, duration |-> ZeroDuration,
             err |-> e]
    IN  IF count.err # NoErr
        THEN Fail(Wrapf("parsing steps failed: %w", count.err))
        ELSE IF count.val <= 0
        THEN Fail(Errorf("steps must be greater than zero, got: %d",
                         <<Itoa(count.val)>>))
        ELSE IF duration.err # NoErr
        THEN Fail(Wrapf("parsing duration failed: %w", duration.err))
        ELSE IF DurLeZero(duration.d)
        THEN Fail(Errorf("activity duration must be greater than zero, got: %s",
                         <<DurationString(duration.d)>>))
        ELSE [steps |-> count.val, activity |-> activity,
              duration |-> duration.d, err |-> NoErr]

\* parseTraining(data): [steps, activity, duration, err].
parseTraining(data) ==
    LET parts == Split(data, ",")
    IN  IF Len(parts) # 3
        THEN [steps |-> 0, activity |-> <<>>, duration |-> ZeroDuration,
              err |-> Errorf("invalid data format: %s", <<data>>)]
        ELSE checkTraining(parts[2], Atoi(parts[1]), ParseDuration(parts[3]))

(***************************************************************************)
(* package spentcalories: distance, meanSpeed and the calorie functions    *)
(***************************************************************************)
\* distance(steps, height): kilometres.
distance(steps, height) ==
    IF steps <= 0 \/ LeZero(height) THEN Zero
    ELSE Quo(Mul(Mul(stepLengthCoefficient, height), Float(steps)),
             Float(MInKm))

\* meanSpeed without the guard on the duration.
meanSpeedNoDurationGuard(steps, height, duration) ==
    IF steps <= 0 \/ LeZero(height) THEN Zero
    ELSE Quo(distance(steps, height), Hours(duration))

\* meanSpeed(steps, height, duration): kilometres per hour.
meanSpeed(steps, height, duration) ==
    IF steps <= 0 \/ LeZero(height) \/ DurLeZero(duration) THEN Zero
    ELSE Quo(distance(steps, height), Hours(duration))

\* RunningSpentCalories(steps, weight, height, duration): [val, err].
RunningSpentCalories(steps, weight, height, duration) ==
    IF steps <= 0
    THEN [val |-> Zero,
          err |-> Errorf("steps must be greater than zero, got: %d",
                         <<Itoa(steps)>>)]
    ELSE IF LeZero(weight)
    THEN [val |-> Zero,
          err |-> Errorf("weight must be greater than zero, got: %f",
                         <<FormatFloat(weight, 6)>>)]
    ELSE IF LeZero(height)
    THEN [val |-> Zero,
          err |-> Errorf("height must be greater than zero, got: %f",
                         <<FormatFloat(height, 6)>>)]
    ELSE IF DurLeZero(duration)
    THEN [val |-> Zero,
          err |-> Errorf("duration must be greater than zero, got: %s",
                         <<DurationString(duration)>>)]
    ELSE [val |-> Quo(Mul(Mul(weight, meanSpeed(steps, height, duration)),
                          Minutes(duration)),
                      Float(minInH)),
          err |-> NoErr]

\* WalkingResult without the coefficient.
WalkingResultNoCoefficient(r) ==
    IF r.err # NoErr THEN [val |-> Zero, err |-> r.err]
    ELSE [val |-> r.val, err |-> NoErr]

\* The result of WalkingSpentCalories from the result r of its call of
\* RunningSpentCalories.
WalkingResult(r) ==
    IF r.err # NoErr THEN [val |-> Zero, err |-> r.err]
    ELSE [val |-> Mul(r.val, walkingCaloriesCoefficient), err |-> NoErr]

\* WalkingSpentCalories(steps, weight, height, duration): [val, err].
WalkingSpentCalories(steps, weight, height, duration) ==
    WalkingResult(RunningSpentCalories(steps, weight, height, duration))

(***************************************************************************)
(* package daysteps: parsePackage                                          *)
(***************************************************************************)
\* checkPackage without the check of the sign of the duration.
checkPackageAnyDuration(count, duration) ==
    LET Fail(e) == [steps |-> 0, duration |-> ZeroDuration, err |-> e]
    IN  IF count.err # NoErr
        THEN Fail(Wrapf("parsing steps failed: %w", count.err))
        ELSE IF count.val <= 0
        THEN Fail(Errorf("steps must be greater than zero, got: %d",
                         <<Itoa(count.val)>>))
        ELSE IF duration.err # NoErr
        THEN Fail(Wrapf("parsing duration failed: %w", duration.err))
        ELSE [steps |-> count.val, duration |-> duration.d, err |-> NoErr]

\* The checks of parsePackage on its two fields, count and duration being
\* what strconv.Atoi and time.ParseDuration make of them.
checkPackage(count, duration) ==
    LET Fail(e) == [steps |-> 0, duration |-> ZeroDuration, err |-> e]
    IN  IF count.err # NoErr
        THEN Fail(Wrapf("parsing steps failed: %w", count.err))
        ELSE IF count.val <= 0
        THEN Fail(Errorf("steps must be greater than zero, got: %d",
                         <<Itoa(count.val)>>))
        ELSE IF duration.err # NoErr
        THEN Fail(Wrapf("parsing duration failed: %w", duration.err))
        ELSE IF DurLeZero(duration.d)
        THEN Fail(Errorf("walk duration must be greater than zero, got: %s",
                         <<DurationString(duration.d)>>))
        ELSE [steps |-> count.val, duration |-> duration.d, err |-> NoErr]

\* parsePackage rejecting only too few fields.
parsePackageFewFields(data) ==
    LET parts == Split(data, ",")
    IN  IF Len(parts) < 2
        THEN [steps |-> 0, duration |-> ZeroDuration,
              err |-> Errorf("invalid data format, expected 'steps,duration', got: %s",
                             <<data>>)]
        ELSE checkPackage(Atoi(parts[1]), ParseDuration(parts[2]))

\* parsePackage(data): [steps, duration, err].
parsePackage(data) ==
    LET parts == Split(data, ",")
    IN  IF Len(parts) # 2
        THEN [steps |-> 0, duration |-> ZeroDuration,
              err |-> Errorf("invalid data format, expected 'steps,duration', got: %s",
                             <<data>>)]
        ELSE checkPackage(Atoi(parts[1]), ParseDuration(parts[2]))

(***************************************************************************)
(* The report texts                                                        *)
(***************************************************************************)
DayText1 ==
    <<"U+041A", "U+043E", "U+043B", "U+0438", "U+0447", "U+0435", "U+0441",
      "U+0442", "U+0432", "U+043E", " ", "U+0448", "U+0430", "U+0433",
      "U+043E", "U+0432", ":", " ">>

DayText2 ==
    <<".", "\n", "U+0414", "U+0438", "U+0441", "U+0442", "U+0430",
      "U+043D", "U+0446", "U+0438", "U+044F", " ", "U+0441", "U+043E",
      "U+0441", "U+0442", "U+0430", "U+0432", "U+0438", "U+043B", "U+0430",
      " ">>

DayText3 ==
    <<" ", "U+043A", "U+043C", ".", "\n", "U+0412", "U+044B", " ",
      "U+0441", "U+043E", "U+0436", "U+0433", "U+043B", "U+0438", " ">>

DayText4 ==
    <<" ", "U+043A", "U+043A", "U+0430", "U+043B", ".", "\n">>

TrainingText1 ==
    <<"U+0422", "U+0438", "U+043F", " ", "U+0442", "U+0440", "U+0435",
      "U+043D", "U+0438", "U+0440", "U+043E", "U+0432", "U+043A", "U+0438",
      ":", " ">>

TrainingText2 ==
    <<"\n", "U+0414", "U+043B", "U+0438", "U+0442", "U+0435", "U+043B",
      "U+044C", "U+043D", "U+043E", "U+0441", "U+0442", "U+044C", ":", " ">>

TrainingText3 ==
    <<" ", "U+0447", ".", "\n", "U+0414", "U+0438", "U+0441", "U+0442",
      "U+0430", "U+043D", "U+0446", "U+0438", "U+044F", ":", " ">>

TrainingText4 ==
    <<" ", "U+043A", "U+043C", ".", "\n", "U+0421", "U+043A", "U+043E",
      "U+0440", "U+043E", "U+0441", "U+0442", "U+044C", ":", " ">>

TrainingText5 ==
    <<" ", "U+043A", "U+043C", "/", "U+0447", "\n", "U+0421", "U+043E",
      "U+0436", "U+0433", "U+043B", "U+0438", " ", "U+043A", "U+0430",
      "U+043B", "U+043E", "U+0440", "U+0438", "U+0439", ":", " ">>

TrainingText6 == <<"\n">>

\* The message of the unknown-activity error, by code point.
UnknownTypeFormat ==
    "U+043D U+0435 U+0438 U+0437 U+0432 U+0435 U+0441 U+0442 U+043D U+044B U+0439 U+0020 U+0442 U+0438 U+043F U+0020 U+0442 U+0440 U+0435 U+043D U+0438 U+0440 U+043E U+0432 U+043A U+0438"

\* DayReport with the distance in the place of the step count.
DayReportNoSteps(steps, dist, calories) ==
    DayText1 \o FormatFloat(dist, 2) \o DayText2 \o FormatFloat(dist, 2)
        \o DayText3 \o FormatFloat(calories, 2) \o DayText4

\* The fmt.Sprintf of DayActionInfo.
DayReport(steps, dist, calories) ==
    DayText1 \o Itoa(steps) \o DayText2 \o FormatFloat(dist, 2)
        \o DayText3 \o FormatFloat(calories, 2) \o DayText4

\* The fmt.Sprintf of TrainingInfo.
TrainingReport(activity, hours, dist, speed, calories) ==
    TrainingText1 \o activity \o TrainingText2 \o FormatFloat(hours, 2)
        \o TrainingText3 \o FormatFloat(dist, 2)
        \o TrainingText4 \o FormatFloat(speed, 2)
        \o TrainingText5 \o FormatFloat(calories, 2) \o TrainingText6

(***************************************************************************)
(* Inputs                                                                  *)
(***************************************************************************)
\* The calls one goroutine makes one after the other.
MaxCalls == 1

\* The calls each of two concurrent goroutines makes.
MaxConcCalls == 2

Join2(a, b) == a \o <<",">> \o b

Join3(a, b, c) == a \o <<",">> \o b \o <<",">> \o c

GoodSteps == {<<"5", "0", "0", "0">>, <<"+", "7">>, <<"1", "0", "0">>}

BadSteps ==
    {<<"0">>, <<"-", "3">>, <<"x">>, <<>>, <<"1", "2", "a">>,
     <<"9", "9", "9", "9", "9", "9", "9", "9", "9", "9",
       "9", "9", "9", "9", "9", "9", "9", "9", "9", "9">>,
     <<"9", "9", "9", "9", "9", "9", "9", "9", "9", "9",
       "9", "9", "9", "9", "9", "9", "9", "9", "9", "9", "x">>}

GoodDurations ==
    {<<"3", "0", "m">>, <<"1", "h", "3", "0", "m">>, <<"1", ".", "5", "h">>,
     <<"5", "0", "0", "m", "s">>, <<"1", "8", "s">>,
     <<"0", ".", "0", "0", "0", "0", "0", "0", "0", "0", "0", "1", "h">>}

BadDurations ==
    {<<"0">>, <<"-", "5", "m">>, <<"3", "0">>, <<"5", "x">>, <<>>,
     <<"-", "1", ".", "5", "s">>,
     <<"9", "2", "2", "3", "3", "7", "2", "0", "3", "7", "s">>,
     <<"2", "5", "6", "2", "0", "4", "7", "h", "2", "5", "6", "2", "0", "4",
       "7", "h">>,
     <<"0", ".", "0", "0", "0", "0", "0", "0", "0", "0", "0", "9", "s">>}

Labels ==
    {running, walking, <<"U+0431", "U+0435", "U+0433">>, running \o <<" ">>,
     <<>>, <<"R", "u", "n">>}

DayData ==
    {Join2(s, d) : s \in GoodSteps \cup BadSteps,
                   d \in {<<"3", "0", "m">>, <<"-", "5", "m">>, <<"5", "x">>}}
    \cup {Join2(<<"5", "0", "0", "0">>, d) : d \in GoodDurations \cup BadDurations}
    \cup {<<>>, <<"5", "0", "0", "0">>,
          Join3(<<"5", "0", "0", "0">>, <<"3", "0", "m">>, <<"1">>),
          Join3(<<"5", "0", "0", "0">>, running, <<"3", "0", "m">>)}

TrainingData ==
    {Join3(s, a, d) : s \in GoodSteps, a \in Labels,
                      d \in {<<"3", "0", "m">>, <<"1", "h", "3", "0", "m">>}}
    \cup {Join3(s, a, d) : s \in BadSteps, a \in {running, <<"R", "u", "n">>},
                           d \in {<<"3", "0", "m">>, <<"5", "x">>}}
    \cup {Join3(<<"5", "0", "0", "0">>, a, d) :
              a \in {walking, <<"R", "u", "n">>},
              d \in GoodDurations \cup BadDurations}
    \cup {<<>>, Join2(<<"5", "0", "0", "0">>, <<"3", "0", "m">>),
          Join3(<<"5", "0", "0", "0">>, running, <<"3", "0", "m">>) \o <<",", "1">>,
          Join2(<<"5", "0", "0", "0">>, running) \o <<"3", "0", "m">>}

\* The (weight, height) pairs of the calls.
Profiles ==
    {<<Float(70), Float(175)>>, <<Rat(141, 2), Float(160)>>,
     <<Zero, Float(175)>>, <<Float(70), Zero>>, <<Float(-1), Rat(-11, 2)>>}

AllInputs ==
    {[fn |-> "DayActionInfo", data |-> d, weight |-> wh[1], height |-> wh[2]] :
        d \in DayData, wh \in Profiles}
    \cup
    {[fn |-> "TrainingInfo", data |-> d, weight |-> wh[1], height |-> wh[2]] :
        d \in TrainingData, wh \in Profiles}

\* The inputs of the concurrent calls.
ConcInputs ==
    {[fn |-> "DayActionInfo", data |-> d, weight |-> Float(70),
      height |-> Float(175)] :
        d \in {Join2(<<"5", "0", "0", "0">>, <<"3", "0", "m">>),
               Join2(<<"0">>, <<"3", "0", "m">>)}}
    \cup
    {[fn |-> "TrainingInfo", data |-> d, weight |-> Float(70),
      height |-> Float(175)] :
        d \in {Join3(<<"5", "0", "0", "0">>, running, <<"3", "0", "m">>),
               Join3(<<"x">>, running, <<"3", "0", "m">>)}}

Inputs(s) == IF s = "all" THEN AllInputs ELSE ConcInputs

MathSteps == {-3, 0, 100, 5000}

MathWeights == {Float(-1), Zero, Float(70), Rat(141, 2)}

MathHeights == {Rat(-11, 2), Zero, Float(175)}

MathDurations ==
    {[sec |-> -300, ns |-> 0], ZeroDuration, [sec |-> 1800, ns |-> 0],
     [sec |-> 18, ns |-> 500000000]}

(***************************************************************************)
(* State                                                                   *)
(***************************************************************************)
VARIABLES
    pc,       \* for each goroutine, where its current call stands
    frame,    \* for each goroutine, the arguments and locals of its call
    ret,      \* for each goroutine, what its last call returned
    log,      \* the standard logger's output: the errors printed, in order
    budget,   \* for each goroutine, the calls it may still make
    scope,    \* which inputs the calls draw from
    mathIn,   \* the arguments of the direct calls of the calorie functions
    mathOut   \* the results of those calls

vars == <<pc, frame, ret, log, budget, scope, mathIn, mathOut>>

reportVars == <<pc, frame, ret, log, budget, scope>>

mathVars == <<mathIn, mathOut>>

Procs == {1, 2}

NoFrame ==
    [fn |-> "", data |-> <<>>, weight |-> Zero, height |-> Zero, log0 |-> 0,
     steps |-> 0, activity |-> <<>>, duration |-> ZeroDuration, err |-> NoErr]

NoRet == [str |-> <<>>, err |-> NoErr, exit |-> 0]

NoResult == [done |-> FALSE, val |-> Zero, err |-> NoErr]

NoMathIn ==
    [steps |-> 0, weight |-> Zero, height |-> Zero, duration |-> ZeroDuration]

NoMathOut ==
    [distance |-> NoResult, meanSpeed |-> NoResult,
     RunningSpentCalories |-> NoResult, WalkingSpentCalories |-> NoResult]

InitReport(b, s) ==
    /\ pc = [p \in Procs |-> "idle"]
    /\ frame = [p \in Procs |-> NoFrame]
    /\ ret = [p \in Procs |-> NoRet]
    /\ log = <<>>
    /\ budget = b
    /\ scope = s

\* One goroutine, any input.
Init ==
    /\ InitReport([p \in Procs |-> IF p = 1 THEN MaxCalls ELSE 0], "all")
    /\ mathIn = NoMathIn
    /\ mathOut = NoMathOut

\* Two goroutines.
InitConc ==
    /\ InitReport([p \in Procs |-> MaxConcCalls], "conc")
    /\ mathIn = NoMathIn
    /\ mathOut = NoMathOut

\* Direct calls of distance, meanSpeed and the calorie functions.
InitMath ==
    /\ InitReport([p \in Procs |-> 0], "all")
    /\ mathIn \in [steps : MathSteps, weight : MathWeights,
                   height : MathHeights, duration : MathDurations]
    /\ mathOut = NoMathOut

(***************************************************************************)
(* The calls, step by step                                                 *)
(***************************************************************************)
\* return of p's call.
Return(p, str, err, exit) ==
    /\ ret' = [ret EXCEPT ![p] = [str |-> str, err |-> err, exit |-> exit]]
    /\ pc' = [pc EXCEPT ![p] = "done"]

\* A goroutine calls DayActionInfo or TrainingInfo.
Call(p) ==
    /\ pc[p] \in {"idle", "done"}
    /\ budget[p] > 0
    /\ \E c \in Inputs(scope) :
          /\ frame' = [frame EXCEPT ![p] =
                 [NoFrame EXCEPT !.fn = c.fn, !.data = c.data,
                                 !.weight = c.weight, !.height = c.height,
                                 !.log0 = Len(log)]]
          /\ pc' = [pc EXCEPT ![p] =
                 IF c.fn = "DayActionInfo" THEN "Day_check" ELSE "Training_check"]
    /\ ret' = [ret EXCEPT ![p] = NoRet]
    /\ budget' = [budget EXCEPT ![p] = @ - 1]
    /\ UNCHANGED <<log, scope, mathVars>>

\* DayActionInfo, the check of weight and height.
DayCheck(p) ==
    /\ pc[p] = "Day_check"
    /\ IF LeZero(frame[p].weight) \/ LeZero(frame[p].height)
       THEN Return(p, <<>>, NoErr, 62)
       ELSE pc' = [pc EXCEPT ![p] = "Day_parse"] /\ UNCHANGED ret
    /\ UNCHANGED <<frame, log, budget, scope, mathVars>>

\* The frame f with the results r of parsePackage in its locals.
WithPackage(f, r) ==
    [f EXCEPT !.steps = r.steps, !.duration = r.duration, !.err = r.err]

\* DayActionInfo, the call of parsePackage.
DayParse(p) ==
    /\ pc[p] = "Day_parse"
    /\ frame' = [frame EXCEPT ![p] = WithPackage(@, parsePackage(@.data))]
    /\ pc' = [pc EXCEPT ![p] =
           IF frame'[p].err # NoErr THEN "Day_log" ELSE "Day_calories"]
    /\ UNCHANGED <<ret, log, budget, scope, mathVars>>

\* DayLog without the write to the log.
DayLogSilent(p) ==
    /\ pc[p] = "Day_log"
    /\ pc' = [pc EXCEPT ![p] = "Day_fail"]
    /\ UNCHANGED <<frame, ret, log, budget, scope, mathVars>>

\* DayActionInfo, log.Println(err).
DayLog(p) ==
    /\ pc[p] = "Day_log"
    /\ log' = Append(log, frame[p].err)
    /\ pc' = [pc EXCEPT ![p] = "Day_fail"]
    /\ UNCHANGED <<frame, ret, budget, scope, mathVars>>

\* DayActionInfo, the return after the log.
DayFail(p) ==
    /\ pc[p] = "Day_fail"
    /\ Return(p, <<>>, NoErr, 68)
    /\ UNCHANGED <<frame, log, budget, scope, mathVars>>

\* The end of DayActionInfo, dist and calories being the distance and what
\* WalkingSpentCalories returned.
DayFinish(p, steps, dist, calories) ==
    /\ frame' = [frame EXCEPT ![p].err = calories.err]
    /\ IF calories.err # NoErr
       THEN Return(p, <<>>, NoErr, 74)
       ELSE Return(p, DayReport(steps, dist, calories.val), NoErr, 78)

\* DayActionInfo, the distance, the calories and the report.
DayCalories(p) ==
    /\ pc[p] = "Day_calories"
    /\ DayFinish(p, frame[p].steps,
                 Quo(Mul(Float(frame[p].steps), LenStep), Float(MInKm)),
                 WalkingSpentCalories(frame[p].steps, frame[p].weight,
                                      frame[p].height, frame[p].duration))
    /\ UNCHANGED <<log, budget, scope, mathVars>>

\* TrainingInfo, the checks of weight and height.
TrainingCheck(p) ==
    /\ pc[p] = "Training_check"
    /\ IF LeZero(frame[p].weight)
       THEN Return(p, <<>>,
                   Errorf("weight must be greater than zero, got: %f",
                          <<FormatFloat(frame[p].weight, 6)>>), 95)
       ELSE IF LeZero(frame[p].height)
       THEN Return(p, <<>>,
                   Errorf("height must be greater than zero, got: %f",
                          <<FormatFloat(frame[p].height, 6)>>), 99)
       ELSE pc' = [pc EXCEPT ![p] = "Training_parse"] /\ UNCHANGED ret
    /\ UNCHANGED <<frame, log, budget, scope, mathVars>>

\* The frame f with the results r of parseTraining in its locals.
WithTraining(f, r) ==
    [f EXCEPT !.steps = r.steps, !.activity = r.activity,
              !.duration = r.duration, !.err = r.err]

\* TrainingInfo, the call of parseTraining.
TrainingParse(p) ==
    /\ pc[p] = "Training_parse"
    /\ frame' = [frame EXCEPT ![p] = WithTraining(@, parseTraining(@.data))]
    /\ pc' = [pc EXCEPT ![p] =
           IF frame'[p].err # NoErr THEN "Training_log" ELSE "Training_calories"]
    /\ UNCHANGED <<ret, log, budget, scope, mathVars>>

\* TrainingInfo, log.Println(err).
TrainingLog(p) ==
    /\ pc[p] = "Training_log"
    /\ log' = Append(log, frame[p].err)
    /\ pc' = [pc EXCEPT ![p] = "Training_fail"]
    /\ UNCHANGED <<frame, ret, budget, scope, mathVars>>

\* TrainingFail returning "" and a nil error, as DayActionInfo does.
TrainingFailNil(p) ==
    /\ pc[p] = "Training_fail"
    /\ Return(p, <<>>, NoErr, 105)
    /\ UNCHANGED <<frame, log, budget, scope, mathVars>>

\* TrainingFail returning the error the logger printed last.
TrainingFailLastLogged(p) ==
    /\ pc[p] = "Training_fail"
    /\ Return(p, <<>>, log[Len(log)], 105)
    /\ UNCHANGED <<frame, log, budget, scope, mathVars>>

\* TrainingInfo, the return after the log.
TrainingFail(p) ==
    /\ pc[p] = "Training_fail"
    /\ Return(p, <<>>, frame[p].err, 105)
    /\ UNCHANGED <<frame, log, budget, scope, mathVars>>

\* The end of TrainingInfo after the switch, calories being what the calorie
\* function returned.
TrainingFinish(p, f, calories) ==
    /\ frame' = [frame EXCEPT ![p].err = calories.err]
    /\ IF calories.err # NoErr
       THEN Return(p, <<>>, calories.err, 119)
       ELSE Return(p, TrainingReport(f.activity, Hours(f.duration),
                                     distance(f.steps, f.height),
                                     meanSpeed(f.steps, f.height, f.duration),
                                     calories.val),
                   NoErr, 126)

\* TrainingSwitch with the walking formula for every label but running.
TrainingSwitchDefaultWalking(p, f) ==
    IF f.activity = running
    THEN TrainingFinish(p, f, RunningSpentCalories(f.steps, f.weight, f.height,
                                                   f.duration))
    ELSE TrainingFinish(p, f, WalkingSpentCalories(f.steps, f.weight, f.height,
                                                   f.duration))

\* The switch of TrainingInfo on the activity of the frame f.
TrainingSwitch(p, f) ==
    IF f.activity = running
    THEN TrainingFinish(p, f, RunningSpentCalories(f.steps, f.weight, f.height,
                                                   f.duration))
    ELSE IF f.activity = walking
    THEN TrainingFinish(p, f, WalkingSpentCalories(f.steps, f.weight, f.height,
                                                   f.duration))
    ELSE /\ Return(p, <<>>, Errorf(UnknownTypeFormat, <<>>), 115)
         /\ UNCHANGED frame

\* TrainingInfo, the switch on the activity, the calories and the report.
TrainingCalories(p) ==
    /\ pc[p] = "Training_calories"
    /\ TrainingSwitch(p, frame[p])
    /\ UNCHANGED <<log, budget, scope, mathVars>>

(***************************************************************************)
(* Direct calls of the functions of package spentcalories                  *)
(***************************************************************************)
\* The record of a call that returned r.
Result(r) == [done |-> TRUE, val |-> r.val, err |-> r.err]

CallDistance ==
    /\ ~mathOut.distance.done
    /\ mathOut' = [mathOut EXCEPT !.distance =
           [done |-> TRUE, val |-> distance(mathIn.steps, mathIn.height),
            err |-> NoErr]]
    /\ UNCHANGED <<mathIn, reportVars>>

CallMeanSpeed ==
    /\ ~mathOut.meanSpeed.done
    /\ mathOut' = [mathOut EXCEPT !.meanSpeed =
           [done |-> TRUE,
            val |-> meanSpeed(mathIn.steps, mathIn.height, mathIn.duration),
            err |-> NoErr]]
    /\ UNCHANGED <<mathIn, reportVars>>

CallRunning ==
    /\ ~mathOut.RunningSpentCalories.done
    /\ mathOut' = [mathOut EXCEPT !.RunningSpentCalories =
           Result(RunningSpentCalories(mathIn.steps, mathIn.weight,
                                       mathIn.height, mathIn.duration))]
    /\ UNCHANGED <<mathIn, reportVars>>

CallWalking ==
    /\ ~mathOut.WalkingSpentCalories.done
    /\ mathOut' = [mathOut EXCEPT !.WalkingSpentCalories =
           Result(WalkingSpentCalories(mathIn.steps, mathIn.weight,
                                       mathIn.height, mathIn.duration))]
    /\ UNCHANGED <<mathIn, reportVars>>

(***************************************************************************)
(* Specifications                                                          *)
(***************************************************************************)
Next ==
    \E p \in Procs :
        \/ Call(p)
        \/ DayCheck(p)
        \/ DayParse(p)
        \/ DayLog(p)
        \/ DayFail(p)
        \/ DayCalories(p)
        \/ TrainingCheck(p)
        \/ TrainingParse(p)
        \/ TrainingLog(p)
        \/ TrainingFail(p)
        \/ TrainingCalories(p)

NextMath ==
    \/ CallDistance
    \/ CallMeanSpeed
    \/ CallRunning
    \/ CallWalking

Spec == Init /\ [][Next]_vars

SpecConc == InitConc /\ [][Next]_vars

SpecMath == InitMath /\ [][NextMath]_vars

(***************************************************************************)
(* What the claims speak of                                                *)
(***************************************************************************)
\* p has returned from a call of fn.
Returned(p, fn) == pc[p] = "done" /\ frame[p].fn = fn

PositiveProfile(f) == ~LeZero(f.weight) /\ ~LeZero(f.height)

\* The field of data at index k is a positive integer, a positive duration.
PositiveSteps(data, k) ==
    Atoi(Split(data, ",")[k]).err = NoErr /\ Atoi(Split(data, ",")[k]).val > 0

PositiveDuration(data, k) ==
    /\ ParseDuration(Split(data, ",")[k]).err = NoErr
    /\ DurPositive(ParseDuration(Split(data, ",")[k]).d)

\* data is "<s>,<d>" with s a positive integer and d a positive duration.
ValidDayData(data) ==
    /\ Len(Split(data, ",")) = 2
    /\ PositiveSteps(data, 1)
    /\ PositiveDuration(data, 2)

\* data has three fields, a positive integer first and a positive duration
\* last.
ValidTrainingData(data) ==
    /\ Len(Split(data, ",")) = 3
    /\ PositiveSteps(data, 1)
    /\ PositiveDuration(data, 3)

KnownLabel(data) == Split(data, ",")[2] \in {running, walking}

\* The call of p has written its error to the log.
Logged(p) ==
    /\ frame[p].err # NoErr
    /\ \E i \in (frame[p].log0 + 1)..Len(log) : log[i] = frame[p].err

\* The call of p has written nothing to the log and parsed nothing.
Untouched(p) ==
    /\ Len(log) = frame[p].log0
    /\ frame[p].steps = 0
    /\ frame[p].activity = <<>>
    /\ frame[p].duration = ZeroDuration
    /\ frame[p].err = NoErr

\* C1: DayActionInfo returns "" whenever weight <= 0, height <= 0, the data
\* has not two fields, the step field is no integer or is <= 0, or the
\* duration field does not parse or is <= 0.
C1_InvalidDayInputGivesEmpty ==
    \A p \in Procs :
        Returned(p, "DayActionInfo")
        /\ ~(PositiveProfile(frame[p]) /\ ValidDayData(frame[p].data))
        => ret[p].str = <<>>

\* A call of DayActionInfo with a good profile, a good step count and a
\* duration that parses to a non-positive value has returned "".
C1_Witness ==
    \E p \in Procs :
        /\ Returned(p, "DayActionInfo")
        /\ PositiveProfile(frame[p])
        /\ Len(Split(frame[p].data, ",")) = 2
        /\ PositiveSteps(frame[p].data, 1)
        /\ ParseDuration(Split(frame[p].data, ",")[2]).err = NoErr
        /\ ~PositiveDuration(frame[p].data, 2)
        /\ ret[p].str = <<>>

\* C2: for data "<s>,<d>" with s a positive integer and d a positive
\* duration, weight > 0 and height > 0, DayActionInfo returns a non-empty
\* report that contains the step-count line with the decimal s.
C2_ValidDayInputGivesReport ==
    \A p \in Procs :
        Returned(p, "DayActionInfo")
        /\ PositiveProfile(frame[p]) /\ ValidDayData(frame[p].data)
        => /\ ret[p].str # <<>>
           /\ Contains(ret[p].str,
                  DayText1
                  \o NatToStr(Atoi(Split(frame[p].data, ",")[1]).val)
                  \o <<".">>)

\* A call of DayActionInfo on "+7,<d>" has returned its report.
C2_Witness ==
    \E p \in Procs :
        /\ Returned(p, "DayActionInfo")
        /\ PositiveProfile(frame[p]) /\ ValidDayData(frame[p].data)
        /\ Split(frame[p].data, ",")[1] = <<"+", "7">>
        /\ ret[p].exit = 78

\* C3: TrainingInfo with weight > 0, height > 0 and three fields, the first
\* a positive integer and the last a positive duration, returns a nil error
\* and a report with the activity line when the label is exactly running or
\* walking, and an error with "" for every other label.
C3_LabelDecidesOutcome ==
    \A p \in Procs :
        Returned(p, "TrainingInfo")
        /\ PositiveProfile(frame[p]) /\ ValidTrainingData(frame[p].data)
        => IF KnownLabel(frame[p].data)
           THEN /\ ret[p].err = NoErr
                /\ Contains(ret[p].str,
                       TrainingText1 \o Split(frame[p].data, ",")[2])
           ELSE /\ ret[p].err # NoErr
                /\ ret[p].str = <<>>

\* A call of TrainingInfo with an unknown label and everything else valid
\* has returned.
C3_Witness ==
    \E p \in Procs :
        /\ Returned(p, "TrainingInfo")
        /\ PositiveProfile(frame[p]) /\ ValidTrainingData(frame[p].data)
        /\ Split(frame[p].data, ",")[2] = <<"U+0431", "U+0435", "U+0433">>
        /\ ret[p].err # NoErr

\* C4: TrainingInfo returns a non-nil error on every failure (non-positive
\* weight or height, wrong field count, bad or non-positive steps, bad or
\* non-positive duration, unknown label), and its string is empty exactly
\* when the error is non-nil.
C4_ErrorIffEmpty ==
    \A p \in Procs :
        Returned(p, "TrainingInfo")
        => /\ ~(/\ PositiveProfile(frame[p])
                /\ ValidTrainingData(frame[p].data)
                /\ KnownLabel(frame[p].data))
              => ret[p].err # NoErr
           /\ ret[p].err # NoErr => ret[p].str = <<>>
           /\ ret[p].err = NoErr => ret[p].str # <<>>

\* A call of TrainingInfo whose data failed to parse has returned the error
\* and "".
C4_Witness ==
    \E p \in Procs :
        /\ Returned(p, "TrainingInfo")
        /\ PositiveProfile(frame[p])
        /\ ~ValidTrainingData(frame[p].data)
        /\ ret[p].err # NoErr
        /\ ret[p].str = <<>>

\* C5: for steps, weight, height and duration all positive,
\* WalkingSpentCalories returns half of what RunningSpentCalories returns,
\* and a nil error; where RunningSpentCalories returns an error,
\* WalkingSpentCalories returns that error and 0.
C5_WalkingIsHalfRunning ==
    mathOut.RunningSpentCalories.done /\ mathOut.WalkingSpentCalories.done
    => /\ (/\ mathIn.steps > 0
           /\ ~LeZero(mathIn.weight)
           /\ ~LeZero(mathIn.height)
           /\ DurPositive(mathIn.duration))
          => /\ mathOut.WalkingSpentCalories.err = NoErr
             /\ mathOut.RunningSpentCalories.err = NoErr
             /\ mathOut.WalkingSpentCalories.val
                    = Mul(Rat(1, 2), mathOut.RunningSpentCalories.val)
       /\ mathOut.RunningSpentCalories.err # NoErr
          => /\ mathOut.WalkingSpentCalories.err
                    = mathOut.RunningSpentCalories.err
             /\ mathOut.WalkingSpentCalories.val = Zero

\* Both calorie functions have been called on positive arguments and the
\* running calories are not zero.
C5_Witness ==
    /\ mathOut.RunningSpentCalories.done
    /\ mathOut.WalkingSpentCalories.done
    /\ mathIn.steps > 0
    /\ ~LeZero(mathIn.weight)
    /\ ~LeZero(mathIn.height)
    /\ DurPositive(mathIn.duration)
    /\ mathOut.RunningSpentCalories.val # Zero

\* C6: distance is 0 when steps <= 0 or height <= 0 and meanSpeed is 0 when
\* steps <= 0, height <= 0 or duration <= 0; for positive arguments
\* distance is 0.45 * height * steps / 1000 and meanSpeed is that distance
\* over the hours of the duration, a finite number, each operation rounded
\* to float64.
C6_DistanceAndSpeed ==
    /\ mathOut.distance.done
       => IF mathIn.steps <= 0 \/ LeZero(mathIn.height)
          THEN mathOut.distance.val = Zero
          ELSE mathOut.distance.val
                   = Quo(Mul(Mul(Rat(45, 100), mathIn.height),
                             Float(mathIn.steps)),
                         Float(1000))
    /\ mathOut.meanSpeed.done
       => IF \/ mathIn.steps <= 0
             \/ LeZero(mathIn.height)
             \/ DurLeZero(mathIn.duration)
          THEN mathOut.meanSpeed.val = Zero
          ELSE /\ IsFinite(mathOut.meanSpeed.val)
               /\ ~LeZero(Hours(mathIn.duration))
               /\ mathOut.meanSpeed.val
                      = Quo(Quo(Mul(Mul(Rat(45, 100), mathIn.height),
                                    Float(mathIn.steps)),
                                Float(1000)),
                            Hours(mathIn.duration))

\* meanSpeed has been called with positive steps and height and a zero
\* duration, and has returned 0.
C6_Witness ==
    /\ mathOut.meanSpeed.done
    /\ mathIn.steps > 0
    /\ ~LeZero(mathIn.height)
    /\ mathIn.duration = ZeroDuration
    /\ mathOut.meanSpeed.val = Zero

\* C7 as stated: every call of DayActionInfo that returns "" has written a
\* log entry for its failure before it returns.
C7_EveryEmptyResultIsLogged ==
    \A p \in Procs :
        Returned(p, "DayActionInfo") /\ ret[p].str = <<>> => Logged(p)

\* C7 as amended: a call of DayActionInfo that returns "" with weight > 0 and
\* height > 0 has written the error of parsePackage to the log before it
\* returns; with weight <= 0 or height <= 0 it returns "" and writes
\* nothing.
C7_ParseFailuresAreLogged ==
    \A p \in Procs :
        /\ frame[p].fn = "DayActionInfo" /\ pc[p] = "Day_fail" => Logged(p)
        /\ Returned(p, "DayActionInfo") /\ ret[p].str = <<>>
           => IF PositiveProfile(frame[p])
              THEN Logged(p) /\ ret[p].exit = 68
              ELSE Untouched(p)

\* A call of DayActionInfo with a good profile has logged its error and
\* returned "".
C7_Witness ==
    \E p \in Procs :
        /\ Returned(p, "DayActionInfo")
        /\ PositiveProfile(frame[p])
        /\ ret[p].str = <<>>
        /\ Logged(p)

\* C8: two calls of the same function with the same data, weight and height
\* return the same string and the same error, whatever other calls ran
\* before them, between them or at the same time.
C8_SameArgumentsSameResult ==
    \A p, q \in Procs :
        /\ pc[p] = "done" /\ pc[q] = "done"
        /\ frame[p].fn = frame[q].fn
        /\ frame[p].data = frame[q].data
        /\ frame[p].weight = frame[q].weight
        /\ frame[p].height = frame[q].height
        => ret[p] = ret[q]

\* Two goroutines have returned from calls with the same arguments that
\* failed, one begun after the other with a log entry of another call
\* between theirs.
C8_Witness ==
    \E p, q \in Procs :
        /\ p # q
        /\ pc[p] = "done" /\ pc[q] = "done"
        /\ frame[p].fn = frame[q].fn
        /\ frame[p].data = frame[q].data
        /\ frame[p].err # NoErr
        /\ frame[q].log0 >= frame[p].log0 + 2
        /\ \E i \in (frame[p].log0 + 1)..frame[q].log0 : log[i] # frame[p].err

\* The format of the error of the first check of TrainingInfo that fails
\* on the arguments of the frame f, in the order weight, height, field
\* count, step parse, steps > 0, duration parse, duration > 0, label; ""
\* when none fails.
FirstTrainingFailure(f) ==
    IF LeZero(f.weight) THEN "weight must be greater than zero, got: %f"
    ELSE IF LeZero(f.height) THEN "height must be greater than zero, got: %f"
    ELSE IF Len(Split(f.data, ",")) # 3 THEN "invalid data format: %s"
    ELSE IF Atoi(Split(f.data, ",")[1]).err # NoErr
    THEN "parsing steps failed: %w"
    ELSE IF Atoi(Split(f.data, ",")[1]).val <= 0
    THEN "steps must be greater than zero, got: %d"
    ELSE IF ParseDuration(Split(f.data, ",")[3]).err # NoErr
    THEN "parsing duration failed: %w"
    ELSE IF DurLeZero(ParseDuration(Split(f.data, ",")[3]).d)
    THEN "activity duration must be greater than zero, got: %s"
    ELSE IF ~KnownLabel(f.data) THEN UnknownTypeFormat
    ELSE ""

\* The same for the checks of parsePackage in DayActionInfo.
FirstPackageFailure(f) ==
    IF Len(Split(f.data, ",")) # 2
    THEN "invalid data format, expected 'steps,duration', got: %s"
    ELSE IF Atoi(Split(f.data, ",")[1]).err # NoErr
    THEN "parsing steps failed: %w"
    ELSE IF Atoi(Split(f.data, ",")[1]).val <= 0
    THEN "steps must be greater than zero, got: %d"
    ELSE IF ParseDuration(Split(f.data, ",")[2]).err # NoErr
    THEN "parsing duration failed: %w"
    ELSE IF DurLeZero(ParseDuration(Split(f.data, ",")[2]).d)
    THEN "walk duration must be greater than zero, got: %s"
    ELSE ""

\* C9: both entry points check weight, height, the field count, the step
\* parse, steps > 0, the duration parse, duration > 0 and (TrainingInfo) the
\* label in this order and return at the first check that fails; nothing is
\* parsed or logged when weight or height is not positive.
C9_FirstFailingCheckDecides ==
    \A p \in Procs :
        /\ Returned(p, "TrainingInfo")
           => /\ ret[p].err.fmt = FirstTrainingFailure(frame[p])
              /\ ~PositiveProfile(frame[p]) => Untouched(p)
        /\ Returned(p, "DayActionInfo")
           => IF ~PositiveProfile(frame[p])
              THEN ret[p].exit = 62 /\ Untouched(p)
              ELSE /\ frame[p].err.fmt = FirstPackageFailure(frame[p])
                   /\ ret[p].exit = (IF frame[p].err # NoErr THEN 68 ELSE 78)

\* A call of TrainingInfo whose step count does not parse, whose duration
\* does not parse and whose label is unknown has returned the error of the
\* step count.
C9_Witness ==
    \E p \in Procs :
        /\ Returned(p, "TrainingInfo")
        /\ PositiveProfile(frame[p])
        /\ Len(Split(frame[p].data, ",")) = 3
        /\ Atoi(Split(frame[p].data, ",")[1]).err # NoErr
        /\ ParseDuration(Split(frame[p].data, ",")[3]).err # NoErr
        /\ ~KnownLabel(frame[p].data)
        /\ ret[p].err.fmt = "parsing steps failed: %w"

\* C10: when a call reaches the calorie function its steps, weight, height
\* and duration are positive, and no call takes the return after a failed
\* calorie function (line 74 of DayActionInfo, line 119 of TrainingInfo).
C10_CalorieCallNeverFails ==
    \A p \in Procs :
        /\ pc[p] \in {"Day_calories", "Training_calories"}
           => /\ frame[p].steps > 0
              /\ PositiveProfile(frame[p])
              /\ DurPositive(frame[p].duration)
        /\ ret[p].exit \notin {74, 119}

\* A call of TrainingInfo for walking stands before its calorie function.
C10_Witness ==
    \E p \in Procs :
        /\ pc[p] = "Training_calories"
        /\ frame[p].activity = walking

====
